---- MODULE Spec2Model ----
(***************************************************************************)
(* A model of the report-accumulation logic of sklearn-evaluation:         *)
(* ReportSection, ModelEvaluator / evaluate_model and ModelComparer /      *)
(* compare_models (src/src/sklearn_evaluation/models.py), and of the ROC   *)
(* plotting routine (src/sklearn_evaluation/plot/roc.py).                  *)
(*                                                                         *)
(* Numbers.  An accuracy is the fraction correct/total of a test set of    *)
(* NSamples labels; it is compared with the threshold 0.9 = 9/10 exactly   *)
(* (10 * correct >= 9 * total).  An AUC is kept in hundredths, so that the *)
(* ranges Range(0, 0.6) and Range(0.7, 0.8) are 0..60 and 70..80.  A       *)
(* compute time is kept in ticks of 1/TicksPerSecond second.               *)
(*                                                                         *)
(* Text.  A guideline is a record [kind, body]: kind "text" with the       *)
(* formatted string, or kind "plot" with the name of the plotting call     *)
(* that produced the embedded artifact.                                    *)
(***************************************************************************)
EXTENDS Integers, Sequences, FiniteSets, TLC

VARIABLES
    me_driver,      \* who drives the ModelEvaluator: "none" | "reader" | "evaluate_model"
    me_pc,          \* position of evaluate_model in its body (or "reader")
    me_state,       \* ModelEvaluator.evaluation_state: the sections, in insertion order
    me_exc,         \* the exception the last ModelEvaluator call raised, or "none"
    me_last,        \* the last ModelEvaluator call: its name, arguments and the state before it
    me_calls,       \* number of method calls the reader has made
    me_report,      \* what evaluate_model / create_report returned, or NoReport
    mc_driver,      \* who drives the ModelComparer: "none" | "reader" | "compare_models"
    mc_pc,          \* position of compare_models in its body (or "reader")
    mc_models,      \* ModelComparer.model_a and model_b
    mc_state,       \* ModelComparer.evaluation_state
    mc_exc,         \* the exception the last ModelComparer call raised, or "none"
    mc_last,        \* the last ModelComparer call: its name and the state before it
    mc_calls,       \* number of method calls the reader has made
    mc_report,      \* what compare_models / create_report returned, or NoReport
    rs_obj,         \* a ReportSection a reader holds: its key and the address of its dict
    rs_heap,        \* the dict objects, by address
    rs_held,        \* the address get_dict returned to the reader (0: not called yet)
    rs_seen,        \* what the dict at rs_held held when get_dict returned
    rs_calls,       \* number of mutating calls made on the section
    mock_calls,     \* the calls telemetry's log_api (a Mock in the test) received
    test,           \* the run of test_logger: its parameters and the call it expects
    plt_axes,       \* the matplotlib Axes objects, by identity
    plt_last,       \* the last call of roc: its arguments, the Axes before it, its outcome
    plt_calls       \* number of calls of roc made

me_vars == <<me_driver, me_pc, me_state, me_exc, me_last, me_calls, me_report>>
mc_vars == <<mc_driver, mc_pc, mc_models, mc_state, mc_exc, mc_last, mc_calls, mc_report>>
rs_vars == <<rs_obj, rs_heap, rs_held, rs_seen, rs_calls>>
log_vars == <<mock_calls, test>>
plt_vars == <<plt_axes, plt_last, plt_calls>>
vars == <<me_vars, mc_vars, rs_vars, log_vars, plt_vars>>

me_others == <<mc_vars, rs_vars, log_vars, plt_vars>>
mc_others == <<me_vars, rs_vars, log_vars, plt_vars>>
rs_others == <<me_vars, mc_vars, log_vars, plt_vars>>
log_others == <<me_vars, mc_vars, rs_vars, plt_vars>>
plt_others == <<me_vars, mc_vars, rs_vars, log_vars>>

\* The objects are independent of each other: a run of the model follows one of them,
\* the others staying as constructed.
OthersIdle(self) ==
    /\ self # "me" => me_driver = "none"
    /\ self # "mc" => mc_driver = "none"
    /\ self # "rs" => rs_obj.key = ""
    /\ self # "log" => ~test.ran
    /\ self # "plt" => plt_calls = 0

(***************************************************************************)
(* Bounds of the model.                                                    *)
(***************************************************************************)
MaxCalls == 2       \* method calls a reader makes on one object
NSamples == 10      \* size of the test set an accuracy is computed over
MaxCurves == 2      \* ROC curves (classes) in one evaluate_auc call
MaxTicks == 2       \* longest compute time of a model, in ticks
TicksPerSecond == 2 \* ticks in a second
MaxClasses == 3     \* most columns of a y_score given to roc
NAxes == 2          \* matplotlib Axes objects there are

(***************************************************************************)
(* Program constants.                                                      *)
(***************************************************************************)
accuracy_threshold_num == 9     \* accuracy_threshold = 0.9 = 9/10
accuracy_threshold_den == 10
auc_low_lo == 0                 \* Range(0, 0.6), in hundredths
auc_low_hi == 60
auc_acceptable_lo == 70         \* Range(0.7, 0.8), in hundredths
auc_acceptable_hi == 80
compute_time_diff_threshold == 1    \* 1 second

(***************************************************************************)
(* Strings.  A string that the code takes apart character by character is  *)
(* a sequence of one-character strings; Str joins it back.                 *)
(***************************************************************************)
RECURSIVE Str(_)
Str(cs) == IF cs = <<>> THEN "" ELSE Head(cs) \o Str(Tail(cs))

\* str.replace(old, new) for a one-character old.
RECURSIVE replace(_, _, _)
replace(cs, old, new) ==
    IF cs = <<>> THEN <<>>
    ELSE (IF Head(cs) = old THEN new ELSE <<Head(cs)>>) \o replace(Tail(cs), old, new)

Text(s) == [kind |-> "text", body |-> s]
Plot(call) == [kind |-> "plot", body |-> call]

\* The section keys the program uses, as character sequences.
K_balance == <<"b","a","l","a","n","c","e">>
K_accuracy == <<"a","c","c","u","r","a","c","y">>
K_auc == <<"a","u","c">>
K_general_stats == <<"g","e","n","e","r","a","l","_","s","t","a","t","s">>
K_percision_recall ==
    <<"p","e","r","c","i","s","i","o","n","_","r","e","c","a","l","l">>
K_computation == <<"c","o","m","p","u","t","a","t","i","o","n">>
K_calibration == <<"c","a","l","i","b","r","a","t","i","o","n">>
K_combined_confusion_matrix ==
    <<"c","o","m","b","i","n","e","d","_","c","o","n","f","u","s","i","o","n",
      "_","m","a","t","r","i","x">>

(***************************************************************************)
(* ReportSection.  A section value is [key, report_section]; the methods   *)
(* return the section after the call.                                      *)
(***************************************************************************)
ReportSection(key, include_in_report) ==
    [key |-> Str(key),
     report_section |->
        [guidelines |-> <<>>,
         title |-> Str(replace(key, "_", <<" ">>)),
         include_in_report |-> include_in_report,
         is_ok |-> FALSE]]

append_guideline(self, guideline) ==
    [self EXCEPT !.report_section.guidelines = Append(@, guideline)]

get_dict(self) == self.report_section

set_is_ok(self, is_ok) == [self EXCEPT !.report_section.is_ok = is_ok]

set_include_in_report(self, include) ==
    [self EXCEPT !.report_section.include_in_report = include]

(***************************************************************************)
(* ModelHeuristics: the base class of ModelEvaluator and ModelComparer.    *)
(* evaluation_state is a dict from section key to the section's mapping;   *)
(* a dict keeps insertion order and an assignment to a key it holds        *)
(* replaces the value in place.                                            *)
(***************************************************************************)
ModelHeuristics_init == <<>>

HasKey(state, key) == \E i \in 1..Len(state) : state[i].key = key

Lookup(state, key) ==
    state[CHOOSE i \in 1..Len(state) : state[i].key = key].report_section

_add_section_to_report(state, section) ==
    LET entry == [key |-> section.key, report_section |-> get_dict(section)]
    IN  IF HasKey(state, section.key)
        THEN [i \in 1..Len(state) |->
                IF state[i].key = section.key THEN entry ELSE state[i]]
        ELSE Append(state, entry)

create_report(state, title) == [title |-> title, sections |-> state]

NoReport == [title |-> "", sections |-> <<>>]

\* What a method call leaves behind: the evaluation_state and the exception raised.
Returned(state) == [state |-> state, exc |-> "none"]
Raised(state, exc) == [state |-> state, exc |-> exc]

(***************************************************************************)
(* The collaborators of the heuristics.  Range is a closed interval.       *)
(***************************************************************************)
Range(low, high) == [low |-> low, high |-> high]

in_range(r, x) == r.low <= x /\ x <= r.high

\* accuracy_score(y_true, y_pred) >= accuracy_threshold, for correct of total right.
accuracy_at_least_threshold(correct, total) ==
    accuracy_threshold_den * correct >= accuracy_threshold_num * total

\* f"{accuracy}"
FormatAccuracy(correct, total) == ToString(correct) \o "/" \o ToString(total)

\* f"{roc_auc}" of an AUC in hundredths
FormatAuc(a) == ToString(a) \o "/100"

(***************************************************************************)
(* ModelEvaluator.evaluate_balance                                         *)
(***************************************************************************)
\* evaluate_balance without the target-distribution plot.
evaluate_balance_no_plot(state, is_balanced) ==
    LET balance_section == ReportSection(K_balance, TRUE)
        s == IF is_balanced
             THEN append_guideline(set_is_ok(balance_section, TRUE),
                                   Text("your model is balanced"))
             ELSE append_guideline(
                    append_guideline(set_is_ok(balance_section, FALSE),
                        Text("Your test set is highly imbalanced")),
                    Text("To tackle this, check out this <a href='https://ploomber.io/blog/' target='_blank'>guide</a>"))
    IN  Returned(_add_section_to_report(state, s))

evaluate_balance(state, is_balanced) ==
    LET balance_section == ReportSection(K_balance, TRUE)
        s == IF is_balanced
             THEN append_guideline(set_is_ok(balance_section, TRUE),
                                   Text("your model is balanced"))
             ELSE append_guideline(
                    append_guideline(
                      append_guideline(set_is_ok(balance_section, FALSE),
                        Text("Your test set is highly imbalanced")),
                      Plot("target_analysis")),
                    Text("To tackle this, check out this <a href='https://ploomber.io/blog/' target='_blank'>guide</a>"))
    IN  Returned(_add_section_to_report(state, s))

(***************************************************************************)
(* ModelEvaluator.evaluate_accuracy.  The lookup of "balance" in           *)
(* evaluation_state raises KeyError when evaluate_balance has not run.     *)
(* In the branch accuracy >= 0.9 with an ok balance the statement          *)
(*     accuracy_section.append_guideline["is_ok"] = True                   *)
(* assigns to an item of a bound method, which raises TypeError; nothing   *)
(* after it runs.                                                          *)
(***************************************************************************)
\* evaluate_accuracy reading the balance with a default: a missing section counts
\* as not ok instead of raising.
evaluate_accuracy_lookup_default(state, correct, total) ==
    LET s1 == append_guideline(ReportSection(K_accuracy, TRUE),
                  Text("Accuracy is " \o FormatAccuracy(correct, total)))
        balance_ok == HasKey(state, "balance") /\ Lookup(state, "balance").is_ok
    IN  IF accuracy_at_least_threshold(correct, total)
        THEN IF balance_ok
             THEN Raised(state, "TypeError")
             ELSE Returned(_add_section_to_report(state,
                    append_guideline(set_is_ok(s1, FALSE),
                      Text("Please note your model is unbalanced, so high accuracy could be misleading"))))
        ELSE Returned(_add_section_to_report(state, s1))

evaluate_accuracy(state, correct, total) ==
    LET accuracy_section == ReportSection(K_accuracy, TRUE)
    IN  IF ~HasKey(state, "balance")
        THEN Raised(state, "KeyError")
        ELSE
          LET balance == Lookup(state, "balance")
              s1 == append_guideline(accuracy_section,
                      Text("Accuracy is " \o FormatAccuracy(correct, total)))
          IN  IF accuracy_at_least_threshold(correct, total)
              THEN IF balance.is_ok
                   THEN Raised(state, "TypeError")
                   ELSE Returned(_add_section_to_report(state,
                          append_guideline(set_is_ok(s1, FALSE),
                            Text("Please note your model is unbalanced, so high accuracy could be misleading"))))
              ELSE Returned(_add_section_to_report(state, s1))

(***************************************************************************)
(* ModelEvaluator.evaluate_auc.  aucs[i] is auc(roc.fpr[i-1], roc.tpr[i-1]) *)
(* and labels is roc.label (empty, or one label per curve).                *)
(***************************************************************************)
ClassPrefix == <<"(", "c", "l", "a", "s", "s", " ">>

\* re.match(r"^\(class (.)*\)", label): the matched text r[0], or <<>> for no match.
\* The star is greedy: the match runs to the last ")" of the label.
re_match_class(label) ==
    LET closers == {j \in (Len(ClassPrefix) + 1)..Len(label) : label[j] = ")"}
    IN  IF /\ Len(label) > Len(ClassPrefix)
           /\ SubSeq(label, 1, Len(ClassPrefix)) = ClassPrefix
           /\ closers # {}
        THEN SubSeq(label, 1, CHOOSE j \in closers : \A k \in closers : k <= j)
        ELSE <<>>

class_name_of(labels, i) ==
    LET label == IF Len(labels) > 0 THEN labels[i]
                 ELSE <<"c", "l", "a", "s", "s", " ", ToString(i - 1)>>
        r == re_match_class(label)
    IN  IF r # <<>> THEN replace(replace(r, "(", <<>>), ")", <<>>) ELSE label

\* The loop body with the final else branch left out: only the acceptable band marks ok.
auc_body_no_else(section, roc_auc, class_name) ==
    IF in_range(Range(auc_low_lo, auc_low_hi), roc_auc)
    THEN append_guideline(
           append_guideline(
             append_guideline(section,
               Text("Area under curve is low for " \o Str(class_name))),
             Plot("ROC")),
           Text("To tackle this, check out this <a href='https://ploomber.io/blog/' target='_blank'>guide</a>"))
    ELSE IF in_range(Range(auc_acceptable_lo, auc_acceptable_hi), roc_auc)
    THEN set_include_in_report(set_is_ok(section, TRUE), FALSE)
    ELSE section

auc_body(section, roc_auc, class_name) ==
    IF in_range(Range(auc_low_lo, auc_low_hi), roc_auc)
    THEN append_guideline(
           append_guideline(
             append_guideline(section,
               Text("Area under curve is low for " \o Str(class_name))),
             Plot("ROC")),
           Text("To tackle this, check out this <a href='https://ploomber.io/blog/' target='_blank'>guide</a>"))
    ELSE IF in_range(Range(auc_acceptable_lo, auc_acceptable_hi), roc_auc)
    THEN set_include_in_report(set_is_ok(section, TRUE), FALSE)
    ELSE set_include_in_report(set_is_ok(section, TRUE), FALSE)

RECURSIVE auc_loop(_, _, _, _)
auc_loop(section, aucs, labels, i) ==
    IF i > Len(aucs) THEN section
    ELSE auc_loop(auc_body(section, aucs[i], class_name_of(labels, i)),
                  aucs, labels, i + 1)

evaluate_auc(state, aucs, labels) ==
    LET auc_section == ReportSection(K_auc, TRUE)
    IN  Returned(_add_section_to_report(state, auc_loop(auc_section, aucs, labels, 1)))

(***************************************************************************)
(* ModelEvaluator.generate_general_stats                                   *)
(***************************************************************************)
\* generate_general_stats marking its section ok.
generate_general_stats_marks_ok(state) ==
    LET general_section == set_is_ok(ReportSection(K_general_stats, TRUE), TRUE)
    IN  Returned(_add_section_to_report(state,
          append_guideline(
            append_guideline(general_section, Plot("confusion_matrix")),
            Plot("roc"))))

generate_general_stats(state) ==
    LET general_section == ReportSection(K_general_stats, TRUE)
    IN  Returned(_add_section_to_report(state,
          append_guideline(
            append_guideline(general_section, Plot("confusion_matrix")),
            Plot("roc"))))

(***************************************************************************)
(* The inputs.  A call's data reaches the heuristics only through the      *)
(* metrics functions, so an input is what those return: whether            *)
(* check_array_balance finds y_true balanced, how many of the NSamples     *)
(* predictions are right, the AUC of each ROC curve and the curves' labels *)
(* (none, or "(class i) (b)" for curve i).  A single curve takes every     *)
(* value around the ends of the two ranges; several curves take one low    *)
(* value and one value beyond the ranges each.                             *)
(***************************************************************************)
CorrectInputs == {c \in 0..NSamples : c >= NSamples - 2}

AucValues == {-1, 0, 60, 61, 75, 81}

MultiAucValues == {30, 90}

AucInputs ==
    [1..1 -> AucValues] \cup UNION {[1..n -> MultiAucValues] : n \in 2..MaxCurves}

LabelOptions == {"none", "class"}

roc_label(option, n) ==
    IF option = "none" THEN <<>>
    ELSE [i \in 1..n |-> ClassPrefix \o <<ToString(i - 1), ")", " ", "(", "b", ")">>]

ReportTitles == {"Model evaluation", "My report"}

(***************************************************************************)
(* The ModelEvaluator object and its two drivers: a reader, who constructs *)
(* it and calls its methods standalone in any order, and evaluate_model,   *)
(* which calls them in its fixed order and stops at the first exception.   *)
(***************************************************************************)
PcBefore(op) ==
    CASE op = "evaluate_balance" -> "created"
      [] op = "evaluate_accuracy" -> "balance-checked"
      [] op = "evaluate_auc" -> "accuracy-checked"
      [] op = "generate_general_stats" -> "auc-checked"
      [] op = "create_report" -> "stats-generated"

PcAfter(op) ==
    CASE op = "evaluate_balance" -> "balance-checked"
      [] op = "evaluate_accuracy" -> "accuracy-checked"
      [] op = "evaluate_auc" -> "auc-checked"
      [] op = "generate_general_stats" -> "stats-generated"
      [] op = "create_report" -> "finalized"

me_CanCall(op) ==
    \/ me_driver = "reader" /\ me_calls < MaxCalls
    \/ me_driver = "evaluate_model" /\ me_pc = PcBefore(op)

\* The call op(args) ended as r says.
me_Step(op, args, r) ==
    /\ me_state' = r.state
    /\ me_exc' = r.exc
    /\ me_last' = [op |-> op, args |-> args, pre |-> me_state]
    /\ me_calls' = IF me_driver = "reader" THEN me_calls + 1 ELSE me_calls
    /\ me_pc' = IF me_driver = "reader" THEN me_pc
                ELSE IF r.exc = "none" THEN PcAfter(op) ELSE "raised"
    /\ UNCHANGED <<me_driver, me_report>>
    /\ UNCHANGED me_others

me_Init ==
    /\ me_driver = "none"
    /\ me_pc = "none"
    /\ me_state = ModelHeuristics_init
    /\ me_exc = "none"
    /\ me_last = [op |-> "none", args |-> <<>>, pre |-> <<>>]
    /\ me_calls = 0
    /\ me_report = NoReport

\* ModelEvaluator(model), by a reader.
ModelEvaluator_init ==
    /\ me_driver = "none" /\ OthersIdle("me")
    /\ me_driver' = "reader"
    /\ me_pc' = "reader"
    /\ me_state' = ModelHeuristics_init
    /\ UNCHANGED <<me_exc, me_last, me_calls, me_report>>
    /\ UNCHANGED me_others

\* evaluate_model(y_true, y_pred, model, y_score) up to me = ModelEvaluator(model).
evaluate_model_begin ==
    /\ me_driver = "none" /\ OthersIdle("me")
    /\ me_driver' = "evaluate_model"
    /\ me_pc' = "created"
    /\ me_state' = ModelHeuristics_init
    /\ UNCHANGED <<me_exc, me_last, me_calls, me_report>>
    /\ UNCHANGED me_others

me_evaluate_balance ==
    /\ me_CanCall("evaluate_balance")
    /\ \E is_balanced \in BOOLEAN :
         me_Step("evaluate_balance", <<IF is_balanced THEN 1 ELSE 0>>,
                 evaluate_balance(me_state, is_balanced))

me_evaluate_accuracy ==
    /\ me_CanCall("evaluate_accuracy")
    /\ \E correct \in CorrectInputs :
         me_Step("evaluate_accuracy", <<correct, NSamples>>,
                 evaluate_accuracy(me_state, correct, NSamples))

me_evaluate_auc ==
    /\ me_CanCall("evaluate_auc")
    /\ \E aucs \in AucInputs, option \in LabelOptions :
         me_Step("evaluate_auc", aucs,
                 evaluate_auc(me_state, aucs, roc_label(option, Len(aucs))))

me_generate_general_stats ==
    /\ me_CanCall("generate_general_stats")
    /\ me_Step("generate_general_stats", <<>>, generate_general_stats(me_state))

\* me.create_report(title): the last statement of evaluate_model, or a reader's call.
me_create_report ==
    /\ \/ me_driver = "reader" /\ me_report = NoReport
       \/ me_driver = "evaluate_model" /\ me_pc = PcBefore("create_report")
    /\ \E title \in ReportTitles :
         /\ me_driver = "evaluate_model" => title = "Model evaluation"
         /\ me_report' = create_report(me_state, title)
    /\ me_pc' = IF me_driver = "reader" THEN me_pc ELSE PcAfter("create_report")
    /\ me_last' = [op |-> "create_report", args |-> <<>>, pre |-> me_state]
    /\ me_exc' = "none"
    /\ UNCHANGED <<me_driver, me_state, me_calls>>
    /\ UNCHANGED me_others

me_Next ==
    \/ ModelEvaluator_init
    \/ evaluate_model_begin
    \/ me_evaluate_balance
    \/ me_evaluate_accuracy
    \/ me_evaluate_auc
    \/ me_generate_general_stats
    \/ me_create_report

(***************************************************************************)
(* ModelComparer.  A model is [predict_proba, predict]: predict_proba is   *)
(* "ok", "missing" (the estimator has no such method: AttributeError) or   *)
(* "rejected" (it returns scores the computation that follows raises       *)
(* ValueError on); predict is "ok" or "raises".                            *)
(***************************************************************************)
Models == [predict_proba : {"ok", "missing", "rejected"}, predict : {"ok", "raises"}]

\* The exception the try block around predict_proba and its plot or metric ends in.
proba_exc(model) ==
    CASE model.predict_proba = "ok" -> "none"
      [] model.predict_proba = "missing" -> "AttributeError"
      [] model.predict_proba = "rejected" -> "ValueError"

predict_exc(model) == IF model.predict = "ok" THEN "none" ELSE "ValueError"

\* ModelHeuristics._get_calculate_failed_error(key, model_name, exc)
_get_calculate_failed_error(key, model_name, exc) ==
    Text("Failed to calculate " \o key \o " for " \o model_name \o ": " \o exc)

IsFailureGuideline(g, key, model_name) ==
    \E exc \in {"AttributeError", "ValueError"} :
        g = _get_calculate_failed_error(key, model_name, exc)

\* The try/except with an except block that records nothing.
try_plot_no_capture(section, model, key, model_name, call) ==
    IF proba_exc(model) = "none" THEN append_guideline(section, Plot(call)) ELSE section

\* One try/except of precision_and_recall and calibration: the plot, or the failure text.
try_plot(section, model, key, model_name, call) ==
    IF proba_exc(model) = "none"
    THEN append_guideline(section, Plot(call))
    ELSE append_guideline(section,
            _get_calculate_failed_error(key, model_name, proba_exc(model)))

precision_and_recall(models, state) ==
    LET percision_recall_section == ReportSection(K_percision_recall, TRUE)
        s1 == try_plot(percision_recall_section, models.a,
                       "percision_recall", "model A", "precision_recall")
        s2 == try_plot(s1, models.b, "percision_recall", "model B", "precision_recall")
    IN  Returned(_add_section_to_report(state, s2))

\* f"{roc_auc_model}" of the list get_roc_auc returns
RECURSIVE FormatAucItems(_)
FormatAucItems(l) ==
    IF Len(l) = 1 THEN FormatAuc(l[1])
    ELSE FormatAuc(l[1]) \o ", " \o FormatAucItems(Tail(l))

FormatAucList(l) == "[" \o FormatAucItems(l) \o "]"

\* One try/except of auc; roc_auc is what get_roc_auc returns for the model's scores.
try_auc(section, model, letter, model_name, roc_auc) ==
    IF proba_exc(model) = "none"
    THEN IF Len(roc_auc) > 1
         THEN append_guideline(section,
                Text("Model " \o letter \o " AUC (ROC) are " \o FormatAucList(roc_auc)))
         ELSE append_guideline(section,
                Text("Model " \o letter \o " AUC (ROC) is " \o FormatAuc(roc_auc[1])))
    ELSE append_guideline(section,
            _get_calculate_failed_error("auc", model_name, proba_exc(model)))

auc(models, state, roc_auc_a, roc_auc_b) ==
    LET auc_section == ReportSection(K_auc, TRUE)
        s1 == try_auc(auc_section, models.a, "A", "model A", roc_auc_a)
        s2 == try_auc(s1, models.b, "B", "model B", roc_auc_b)
    IN  Returned(_add_section_to_report(state, s2))

\* f"{model_compute_time}" of a time in ticks
FormatTime(t) == ToString(t) \o "/" \o ToString(TicksPerSecond)

abs(x) == IF x < 0 THEN -x ELSE x

\* get_model_computation_time(model, X_test) times model.predict(X_test): the
\* exception of predict comes out of it.
get_model_computation_time(model, time) ==
    [value |-> time, exc |-> predict_exc(model)]

computation(models, state, time_a, time_b) ==
    LET computation_section == ReportSection(K_computation, TRUE)
        ta == get_model_computation_time(models.a, time_a)
        tb == get_model_computation_time(models.b, time_b)
        model_a_compute_time == ta.value
        model_b_compute_time == tb.value
        is_significant_time_diff ==
            abs(model_a_compute_time - model_b_compute_time)
                >= compute_time_diff_threshold * TicksPerSecond
        s1 == IF is_significant_time_diff
              THEN IF model_a_compute_time > model_b_compute_time
                   THEN append_guideline(computation_section,
                          Text("Model A is a lot more computational expensive"))
                   ELSE append_guideline(computation_section,
                          Text("Model B is a lot more computational expensive"))
              ELSE computation_section
        s2 == append_guideline(s1,
                Text("Model A compute time is " \o FormatTime(model_a_compute_time)
                     \o " (seconds)"))
        s3 == append_guideline(s2,
                Text("Model B compute time is " \o FormatTime(model_b_compute_time)
                     \o " (seconds)"))
    IN  IF ta.exc # "none" THEN Raised(state, ta.exc)
        ELSE IF tb.exc # "none" THEN Raised(state, tb.exc)
        ELSE Returned(_add_section_to_report(state, s3))

\* calibration without its try/except blocks: a failure comes out of the call.
calibration_no_try(models, state) ==
    LET calibration_section == ReportSection(K_calibration, TRUE)
        s1 == append_guideline(calibration_section, Plot("calibration_curve"))
        s2 == append_guideline(s1, Plot("calibration_curve"))
    IN  IF proba_exc(models.a) # "none" THEN Raised(state, proba_exc(models.a))
        ELSE IF proba_exc(models.b) # "none" THEN Raised(state, proba_exc(models.b))
        ELSE Returned(_add_section_to_report(state, s2))

calibration(models, state) ==
    LET calibration_section == ReportSection(K_calibration, TRUE)
        s1 == try_plot(calibration_section, models.a,
                       "calibration", "model A", "calibration_curve")
        s2 == try_plot(s1, models.b, "calibration", "model B", "calibration_curve")
    IN  Returned(_add_section_to_report(state, s2))

\* add_combined_cm; same_shape says whether the two confusion matrices can be added.
add_combined_cm(models, state, same_shape) ==
    LET combined_confusion_matrix_section ==
            ReportSection(K_combined_confusion_matrix, TRUE)
    IN  IF predict_exc(models.a) # "none" THEN Raised(state, predict_exc(models.a))
        ELSE IF predict_exc(models.b) # "none" THEN Raised(state, predict_exc(models.b))
        ELSE IF ~same_shape THEN Raised(state, "ValueError")
        ELSE Returned(_add_section_to_report(state,
               append_guideline(combined_confusion_matrix_section,
                                Plot("combined_confusion_matrix"))))

(***************************************************************************)
(* The ModelComparer object and its two drivers, a reader and              *)
(* compare_models.                                                         *)
(***************************************************************************)
RocAucInputs == {[i \in 1..n |-> 50] : n \in 1..MaxCurves}

McPcBefore(op) ==
    CASE op = "precision_and_recall" -> "created"
      [] op = "auc" -> "percision_recall-done"
      [] op = "computation" -> "auc-done"
      [] op = "calibration" -> "computation-done"
      [] op = "add_combined_cm" -> "calibration-done"
      [] op = "create_report" -> "combined_cm-done"

McPcAfter(op) ==
    CASE op = "precision_and_recall" -> "percision_recall-done"
      [] op = "auc" -> "auc-done"
      [] op = "computation" -> "computation-done"
      [] op = "calibration" -> "calibration-done"
      [] op = "add_combined_cm" -> "combined_cm-done"
      [] op = "create_report" -> "finalized"

mc_CanCall(op) ==
    \/ mc_driver = "reader" /\ mc_calls < MaxCalls
    \/ mc_driver = "compare_models" /\ mc_pc = McPcBefore(op)

mc_Step(op, r) ==
    /\ mc_state' = r.state
    /\ mc_exc' = r.exc
    /\ mc_last' = [op |-> op, pre |-> mc_state]
    /\ mc_calls' = IF mc_driver = "reader" THEN mc_calls + 1 ELSE mc_calls
    /\ mc_pc' = IF mc_driver = "reader" THEN mc_pc
                ELSE IF r.exc = "none" THEN McPcAfter(op) ELSE "raised"
    /\ UNCHANGED <<mc_driver, mc_models, mc_report>>

NoModels == [a |-> [predict_proba |-> "ok", predict |-> "ok"],
             b |-> [predict_proba |-> "ok", predict |-> "ok"]]

mc_Init ==
    /\ mc_driver = "none"
    /\ mc_pc = "none"
    /\ mc_models = NoModels
    /\ mc_state = ModelHeuristics_init
    /\ mc_exc = "none"
    /\ mc_last = [op |-> "none", pre |-> <<>>]
    /\ mc_calls = 0
    /\ mc_report = NoReport

\* ModelComparer(model_a, model_b), by a reader.
ModelComparer_init ==
    /\ mc_driver = "none" /\ OthersIdle("mc")
    /\ \E model_a \in Models, model_b \in Models :
         mc_models' = [a |-> model_a, b |-> model_b]
    /\ mc_driver' = "reader"
    /\ mc_pc' = "reader"
    /\ mc_state' = ModelHeuristics_init
    /\ UNCHANGED <<mc_exc, mc_last, mc_calls, mc_report>>
    /\ UNCHANGED mc_others

\* compare_models(model_a, model_b, X_train, X_test, y_true) up to
\* mc = ModelComparer(model_a, model_b).
compare_models_begin ==
    /\ mc_driver = "none" /\ OthersIdle("mc")
    /\ \E model_a \in Models, model_b \in Models :
         mc_models' = [a |-> model_a, b |-> model_b]
    /\ mc_driver' = "compare_models"
    /\ mc_pc' = "created"
    /\ mc_state' = ModelHeuristics_init
    /\ UNCHANGED <<mc_exc, mc_last, mc_calls, mc_report>>
    /\ UNCHANGED mc_others

mc_precision_and_recall ==
    /\ mc_CanCall("precision_and_recall")
    /\ mc_Step("precision_and_recall", precision_and_recall(mc_models, mc_state))
    /\ UNCHANGED mc_others

mc_auc ==
    /\ mc_CanCall("auc")
    /\ \E roc_auc_a \in RocAucInputs, roc_auc_b \in RocAucInputs :
         mc_Step("auc", auc(mc_models, mc_state, roc_auc_a, roc_auc_b))
    /\ UNCHANGED mc_others

mc_computation ==
    /\ mc_CanCall("computation")
    /\ \E time_a \in 0..MaxTicks, time_b \in 0..MaxTicks :
         mc_Step("computation", computation(mc_models, mc_state, time_a, time_b))
    /\ UNCHANGED mc_others

mc_calibration ==
    /\ mc_CanCall("calibration")
    /\ mc_Step("calibration", calibration(mc_models, mc_state))
    /\ UNCHANGED mc_others

mc_add_combined_cm ==
    /\ mc_CanCall("add_combined_cm")
    /\ \E same_shape \in BOOLEAN :
         mc_Step("add_combined_cm", add_combined_cm(mc_models, mc_state, same_shape))
    /\ UNCHANGED mc_others

\* mc.create_report(title): the last statement of compare_models, or a reader's call.
mc_create_report ==
    /\ \/ mc_driver = "reader" /\ mc_report = NoReport
       \/ mc_driver = "compare_models" /\ mc_pc = McPcBefore("create_report")
    /\ \E title \in {"Compare models", "My report"} :
         /\ mc_driver = "compare_models" => title = "Compare models"
         /\ mc_report' = create_report(mc_state, title)
    /\ mc_pc' = IF mc_driver = "reader" THEN mc_pc ELSE McPcAfter("create_report")
    /\ mc_last' = [op |-> "create_report", pre |-> mc_state]
    /\ mc_exc' = "none"
    /\ UNCHANGED <<mc_driver, mc_models, mc_state, mc_calls>>
    /\ UNCHANGED mc_others

mc_Next ==
    \/ ModelComparer_init
    \/ compare_models_begin
    \/ mc_precision_and_recall
    \/ mc_auc
    \/ mc_computation
    \/ mc_calibration
    \/ mc_add_combined_cm
    \/ mc_create_report


(***************************************************************************)
(* A ReportSection in a reader's hands.  self.report_section is a dict     *)
(* object: the section holds its address, and so does whoever get_dict     *)
(* returned it to.                                                         *)
(***************************************************************************)
HeapSize == 2

Free == [guidelines |-> <<>>, title |-> "", include_in_report |-> FALSE, is_ok |-> FALSE]

NoSection == [key |-> "", report_section |-> 0]

GuidelineInputs == {Text("your model is balanced"), Plot("roc")}

SectionKeys == {K_balance, K_general_stats}

\* The section as a value: its dict read through the address.
rs_self == [key |-> rs_obj.key, report_section |-> rs_heap[rs_obj.report_section]]

rs_Init ==
    /\ rs_obj = NoSection
    /\ rs_heap = [a \in 1..HeapSize |-> Free]
    /\ rs_held = 0
    /\ rs_seen = Free
    /\ rs_calls = 0

\* ReportSection(key, include_in_report): dict({...}) is a new dict object.
rs_ReportSection ==
    /\ rs_obj = NoSection /\ OthersIdle("rs")
    /\ \E key \in SectionKeys, include_in_report \in BOOLEAN :
         LET new == ReportSection(key, include_in_report)
         IN  /\ rs_obj' = [key |-> new.key, report_section |-> 1]
             /\ rs_heap' = [rs_heap EXCEPT ![1] = new.report_section]
    /\ UNCHANGED <<rs_held, rs_seen, rs_calls>>
    /\ UNCHANGED rs_others

rs_Mutate(after) ==
    /\ rs_obj # NoSection
    /\ rs_calls < MaxCalls
    /\ rs_heap' = [rs_heap EXCEPT ![rs_obj.report_section] = after.report_section]
    /\ rs_calls' = rs_calls + 1
    /\ UNCHANGED <<rs_obj, rs_held, rs_seen>>
    /\ UNCHANGED rs_others

rs_append_guideline ==
    \E guideline \in GuidelineInputs : rs_Mutate(append_guideline(rs_self, guideline))

rs_set_is_ok ==
    \E is_ok \in BOOLEAN : rs_Mutate(set_is_ok(rs_self, is_ok))

rs_set_include_in_report ==
    \E include \in BOOLEAN : rs_Mutate(set_include_in_report(rs_self, include))

\* get_dict returning a copy of the dict, at a new address.
rs_get_dict_copy ==
    /\ rs_obj # NoSection
    /\ rs_held = 0
    /\ rs_held' = HeapSize
    /\ rs_heap' = [rs_heap EXCEPT ![HeapSize] = rs_heap[rs_obj.report_section]]
    /\ rs_seen' = rs_heap[rs_obj.report_section]
    /\ UNCHANGED <<rs_obj, rs_calls>>
    /\ UNCHANGED rs_others

\* get_dict returns self.report_section: the dict object itself.
rs_get_dict ==
    /\ rs_obj # NoSection
    /\ rs_held = 0
    /\ rs_held' = get_dict(rs_obj)
    /\ rs_seen' = rs_heap[get_dict(rs_obj)]
    /\ UNCHANGED <<rs_obj, rs_heap, rs_calls>>
    /\ UNCHANGED rs_others

rs_Next ==
    \/ rs_ReportSection
    \/ rs_append_guideline
    \/ rs_set_is_ok
    \/ rs_set_include_in_report
    \/ rs_get_dict

(***************************************************************************)
(* Telemetry.  SKLearnEvaluationLogger.log(feature, action) wraps a        *)
(* function; a call of the wrapped function logs one event through         *)
(* telemetry's log_api.  A Python value is kept as the text of its repr,   *)
(* None as "None"; a dict is a function from its keys.                     *)
(***************************************************************************)
None == "None"

EmptyDict == [k \in {} |-> None]

\* SKLearnEvaluationLogger.flags()
flags == {"is_report"}

\* def my_function(a, b, x=None, y=None, **kwargs)
my_function == [name |-> "my_function", keyword_parameters |-> {"x", "y"}]

\* The call log_api receives when func, wrapped by log(feature, action), is called
\* with the keyword arguments kwargs.
log_call(feature, action, func, kwargs) ==
    LET passed_flags == [k \in (DOMAIN kwargs) \cap flags |-> kwargs[k]]
        metadata ==
            [action |-> IF action = None THEN func.name ELSE action,
             feature |-> feature,
             args |-> [k \in func.keyword_parameters |-> kwargs[k]]]
    IN  [event |-> "sklearn-evaluation",
         metadata |-> IF passed_flags # EmptyDict
                      THEN metadata @@ ("flags" :> passed_flags)
                      ELSE metadata]

\* The call test_logger expects, that always expects a flags entry.
expected_call_always_flags(feature, action, x, y, kwargs) ==
    [event |-> "sklearn-evaluation",
     metadata |->
        [action |-> IF action = None THEN "my_function" ELSE action,
         feature |-> feature,
         args |-> [x |-> x, y |-> y],
         flags |-> [k \in (DOMAIN kwargs) \cap flags |-> kwargs[k]]]]

\* The call test_logger expects: call('sklearn-evaluation', metadata=expected_metadata).
expected_call(feature, action, x, y, kwargs) ==
    LET expected_flags == [k \in (DOMAIN kwargs) \cap flags |-> kwargs[k]]
        function_arguments == [x |-> x, y |-> y]
        _action == IF action = None THEN "my_function" ELSE action
        expected_metadata ==
            [action |-> _action, feature |-> feature, args |-> function_arguments]
    IN  [event |-> "sklearn-evaluation",
         metadata |-> IF Cardinality(DOMAIN expected_flags) > 0
                      THEN expected_metadata @@ ("flags" :> expected_flags)
                      ELSE expected_metadata]

\* The parametrization of test_logger.
TestActions == {"some_action", None}
TestFeatures == {"report", None}
TestX == {"1", None}
TestY == {"2", None}
TestKwargs ==
    { ("is_report" :> "True" @@ "not-a-flag" :> "True"),
      ("not-a-flag" :> "'random-value'"),
      ("is_report" :> "True"),
      EmptyDict }

NoTest == [ran |-> FALSE, feature |-> None, action |-> None, kwargs |-> EmptyDict,
           expected |-> [event |-> "", metadata |-> EmptyDict]]

log_Init ==
    /\ mock_calls = <<>>
    /\ test = NoTest

\* test_logger(mock_telemetry, action, feature, x, y, kwargs) up to its assertion:
\* my_function(1, 2, x=x, y=y, **kwargs), wrapped by log(feature=feature, action=action).
test_logger ==
    /\ ~test.ran /\ OthersIdle("log")
    /\ \E action \in TestActions, feature \in TestFeatures,
          x \in TestX, y \in TestY, kwargs \in TestKwargs :
         LET passed == ("x" :> x @@ "y" :> y) @@ kwargs
         IN  /\ mock_calls' =
                    Append(mock_calls, log_call(feature, action, my_function, passed))
             /\ test' = [ran |-> TRUE, feature |-> feature, action |-> action,
                         kwargs |-> passed,
                         expected |-> expected_call(feature, action, x, y, kwargs)]
    /\ UNCHANGED log_others

\* mock_telemetry.assert_has_calls([expected])
assert_has_calls == \E i \in 1..Len(mock_calls) : mock_calls[i] = test.expected

log_Next == test_logger

(***************************************************************************)
(* plot/roc.py.  An Axes is the record of what was drawn on it: its lines  *)
(* in drawing order, its limits (in hundredths), labels, title and legend  *)
(* location.  A line is [data, style, label]: data names the arrays the    *)
(* curve was computed from, each as [array, column] with column "all" (the *)
(* array as passed), "ravel" or a column index.  The label of a curve ends *)
(* in the area auc(fpr, tpr) of that data, which the label leaves to data. *)
(* y_score has n_classes columns and y_true holds that many labels.        *)
(*                                                                         *)
(* roc_curve is the metrics library's: it returns the curve or raises      *)
(* ValueError for arrays it rejects.  rejected is the number of the first  *)
(* roc_curve call of a run of roc that raises (0: none does); a frame      *)
(* [ax, exc, k] is the Axes so far, the exception in flight and the number *)
(* of roc_curve calls made.                                                *)
(***************************************************************************)
NoAx == 0       \* ax=None

plt_gca == 1    \* plt.gca(): the current Axes

BlankAxes ==
    [lines |-> <<>>, xlim |-> <<0, 100>>, ylim |-> <<0, 100>>,
     xlabel |-> "", ylabel |-> "", title |-> "", legend |-> ""]

Slice(array, column) == [array |-> array, column |-> column]

ax_plot(ax, data, style, label) ==
    [ax EXCEPT !.lines = Append(@, [data |-> data, style |-> style, label |-> label])]

Diagonal == <<Slice("[0, 1]", "all"), Slice("[0, 1]", "all")>>

\* The statements after the curve is drawn: the same in _roc and _roc_multi
\* but for the legend's location.
ax_decorate(ax, loc) ==
    [ax_plot(ax, Diagonal, "k--", "")
        EXCEPT !.xlim = <<0, 100>>, !.ylim = <<0, 105>>,
               !.xlabel = "False Positive Rate", !.ylabel = "True Positive Rate",
               !.title = "ROC", !.legend = loc]

_roc(r, y_true, y_score, rejected) ==
    IF r.exc # "none" THEN r
    ELSE IF r.k + 1 = rejected THEN [r EXCEPT !.k = @ + 1, !.exc = "ValueError"]
    ELSE [r EXCEPT !.k = @ + 1,
                   !.ax = ax_decorate(
                            ax_plot(@, <<y_true, y_score>>, "", "ROC curve (area = auc)"),
                            "best")]

\* roc always hands _roc_multi an Axes, so its own "if ax is None" is not taken.
_roc_multi(r, y_true, y_score, rejected) ==
    IF r.exc # "none" THEN r
    ELSE IF r.k + 1 = rejected THEN [r EXCEPT !.k = @ + 1, !.exc = "ValueError"]
    ELSE [r EXCEPT !.k = @ + 1,
                   !.ax = ax_decorate(
                            ax_plot(@, <<Slice(y_true, "ravel"), Slice(y_score, "ravel")>>,
                                    "", "micro-average ROC curve (area = auc)"),
                            "lower right")]

\* for i in range(n_classes): _roc(y_true_bin[:, i], y_score[:, i], ax=ax)
RECURSIVE roc_loop(_, _, _, _)
roc_loop(r, i, n_classes, rejected) ==
    IF i >= n_classes THEN r
    ELSE roc_loop(_roc(r, Slice("y_true_bin", ToString(i)), Slice("y_score", ToString(i)),
                       rejected),
                  i + 1, n_classes, rejected)

\* roc with the multi-class branch taken from two columns on.
roc_dispatch_at_two(axes, ax_arg, n_classes, rejected) ==
    LET ax == IF ax_arg = NoAx THEN plt_gca ELSE ax_arg
        r0 == [ax |-> axes[ax], exc |-> "none", k |-> 0]
        r == IF n_classes >= 2
             THEN roc_loop(_roc_multi(r0, "y_true_bin", "y_score", rejected),
                           0, n_classes, rejected)
             ELSE _roc(r0, Slice("y_true", "all"), Slice("y_score", "all"), rejected)
    IN  [axes |-> [axes EXCEPT ![ax] = r.ax],
         ret |-> IF r.exc = "none" THEN ax ELSE NoAx,
         exc |-> r.exc]

\* roc(y_true, y_score, ax): the Axes after the call, what it returned (NoAx when
\* it raised) and the exception it ended in.
roc(axes, ax_arg, n_classes, rejected) ==
    LET ax == IF ax_arg = NoAx THEN plt_gca ELSE ax_arg
        r0 == [ax |-> axes[ax], exc |-> "none", k |-> 0]
        r == IF n_classes > 2
             THEN roc_loop(_roc_multi(r0, "y_true_bin", "y_score", rejected),
                           0, n_classes, rejected)
             ELSE _roc(r0, Slice("y_true", "all"), Slice("y_score", "all"), rejected)
    IN  [axes |-> [axes EXCEPT ![ax] = r.ax],
         ret |-> IF r.exc = "none" THEN ax ELSE NoAx,
         exc |-> r.exc]

\* The roc_curve calls a run of roc makes when none raises.
CurveCalls(n_classes) == IF n_classes > 2 THEN n_classes + 1 ELSE 1

plt_Init ==
    /\ plt_axes = [a \in 1..NAxes |-> BlankAxes]
    /\ plt_last = [n_classes |-> 0, ax |-> NoAx, pre |-> <<>>, ret |-> NoAx, exc |-> "none"]
    /\ plt_calls = 0

\* plot.roc(y_true, y_score, ax), by a reader.
plt_roc ==
    /\ OthersIdle("plt")
    /\ plt_calls < MaxCalls
    /\ \E n_classes \in 1..MaxClasses, ax_arg \in {NoAx} \cup (1..NAxes) :
         \E rejected \in 0..CurveCalls(n_classes) :
            LET r == roc(plt_axes, ax_arg, n_classes, rejected)
            IN  /\ plt_axes' = r.axes
                /\ plt_last' = [n_classes |-> n_classes, ax |-> ax_arg, pre |-> plt_axes,
                                ret |-> r.ret, exc |-> r.exc]
    /\ plt_calls' = plt_calls + 1
    /\ UNCHANGED plt_others

plt_Next == plt_roc

(***************************************************************************)
(* The specification.                                                      *)
(***************************************************************************)
Init == me_Init /\ mc_Init /\ rs_Init /\ log_Init /\ plt_Init

Next == me_Next \/ mc_Next \/ rs_Next \/ log_Next \/ plt_Next

Spec == Init /\ [][Next]_vars

(***************************************************************************)
(* Helpers of the properties.                                              *)
(***************************************************************************)
Keys(state) == [i \in 1..Len(state) |-> state[i].key]

\* state is before with the section keyed key stored: in place when before holds
\* the key, at the end otherwise; every other section is as it was.
StoredOne(before, state, key) ==
    /\ Cardinality({i \in 1..Len(state) : state[i].key = key}) = 1
    /\ Len(state) = Len(before) + (IF HasKey(before, key) THEN 0 ELSE 1)
    /\ \A i \in 1..Len(before) : before[i].key # key => state[i] = before[i]
    /\ \A i \in 1..Len(before) : before[i].key = key => state[i].key = key

RemediationLink ==
    Text("To tackle this, check out this <a href='https://ploomber.io/blog/' target='_blank'>guide</a>")

me_called(op) == me_last.op = op

BalanceWasOk(state) == HasKey(state, "balance") /\ Lookup(state, "balance").is_ok

(***************************************************************************)
(* C1.  On a ModelEvaluator whose stored balance section is ok,            *)
(* evaluate_accuracy completes and stores an accuracy section: with        *)
(* accuracy >= 0.9 the section is ok and holds the raw score followed by   *)
(* the affirming guideline; with accuracy < 0.9 it is not ok and holds the *)
(* raw score alone.                                                        *)
(***************************************************************************)
C1_AccuracyAfterOkBalance ==
    (me_called("evaluate_accuracy") /\ BalanceWasOk(me_last.pre)) =>
        LET correct == me_last.args[1]
            total == me_last.args[2]
            raw == Text("Accuracy is " \o FormatAccuracy(correct, total))
        IN  /\ me_exc = "none"
            /\ HasKey(me_state, "accuracy")
            /\ LET section == Lookup(me_state, "accuracy")
               IN  IF accuracy_at_least_threshold(correct, total)
                   THEN /\ section.is_ok
                        /\ section.guidelines = <<raw, Text("You model is accurate")>>
                   ELSE /\ ~section.is_ok
                        /\ section.guidelines = <<raw>>

(***************************************************************************)
(* C2.  After evaluate_auc over a single ROC curve the auc section is not  *)
(* ok, included in the report and holds the low-AUC text, the class's ROC  *)
(* plot and the remediation link, when the AUC is in [0, 0.6], both ends   *)
(* included; for every other AUC it is ok, excluded from the report and    *)
(* holds no guideline.                                                     *)
(***************************************************************************)
C2_SingleCurveBanding ==
    (me_called("evaluate_auc") /\ Len(me_last.args) = 1) =>
        /\ me_exc = "none"
        /\ HasKey(me_state, "auc")
        /\ LET roc_auc == me_last.args[1]
               section == Lookup(me_state, "auc")
           IN  IF 0 <= roc_auc /\ roc_auc <= 60
               THEN /\ ~section.is_ok
                    /\ section.include_in_report
                    /\ Len(section.guidelines) = 3
                    /\ section.guidelines[1] \in
                         {Text("Area under curve is low for class 0"),
                          Text("Area under curve is low for class 0 b")}
                    /\ section.guidelines[2] = Plot("ROC")
                    /\ section.guidelines[3] = RemediationLink
               ELSE /\ section.is_ok
                    /\ ~section.include_in_report
                    /\ section.guidelines = <<>>

\* A single curve whose AUC is exactly 0.6 was flagged low.
C2_Witness ==
    /\ me_called("evaluate_auc")
    /\ me_last.args = <<60>>
    /\ HasKey(me_state, "auc")
    /\ ~Lookup(me_state, "auc").is_ok
    /\ Len(Lookup(me_state, "auc").guidelines) = 3

(***************************************************************************)
(* C3.  evaluate_model never ends in an exception: it runs                 *)
(* evaluate_balance, evaluate_accuracy, evaluate_auc and                   *)
(* generate_general_stats in this order, each storing one more section,    *)
(* and returns the report titled "Model evaluation" with the sections      *)
(* balance, accuracy, auc, general_stats.                                  *)
(***************************************************************************)
C3_EvaluateModelFinalizes ==
    me_driver = "evaluate_model" =>
        /\ me_pc # "raised"
        /\ me_pc = "created" => Keys(me_state) = <<>>
        /\ me_pc = "balance-checked" => Keys(me_state) = <<"balance">>
        /\ me_pc = "accuracy-checked" => Keys(me_state) = <<"balance", "accuracy">>
        /\ me_pc = "auc-checked" => Keys(me_state) = <<"balance", "accuracy", "auc">>
        /\ me_pc \in {"stats-generated", "finalized"} =>
              Keys(me_state) = <<"balance", "accuracy", "auc", "general_stats">>
        /\ me_pc = "finalized" =>
              me_report = [title |-> "Model evaluation", sections |-> me_state]

(***************************************************************************)
(* C4.  precision_and_recall, auc and calibration never raise, whichever   *)
(* of the two models fails at probability prediction or at the computation *)
(* that follows it: each stores one section holding exactly two            *)
(* guidelines, model A's then model B's, a failing model's being the       *)
(* failure text that names it and a succeeding model's its plot or its AUC *)
(* text.                                                                   *)
(***************************************************************************)
ProbaChecks == {"precision_and_recall", "auc", "calibration"}

KeyOf(op) ==
    CASE op = "precision_and_recall" -> "percision_recall"
      [] op = "auc" -> "auc"
      [] op = "calibration" -> "calibration"

SuccessEntries(op, letter) ==
    CASE op = "precision_and_recall" -> {Plot("precision_recall")}
      [] op = "calibration" -> {Plot("calibration_curve")}
      [] op = "auc" ->
            {Text("Model " \o letter \o " AUC (ROC) is " \o FormatAuc(l[1])) :
                l \in {r \in RocAucInputs : Len(r) = 1}}
            \cup {Text("Model " \o letter \o " AUC (ROC) are " \o FormatAucList(l)) :
                l \in {r \in RocAucInputs : Len(r) > 1}}

EntryOf(g, op, model, letter, model_name) ==
    IF proba_exc(model) = "none"
    THEN g \in SuccessEntries(op, letter)
    ELSE IsFailureGuideline(g, KeyOf(op), model_name)

TwoEntries(section, op) ==
    /\ Len(section.guidelines) = 2
    /\ EntryOf(section.guidelines[1], op, mc_models.a, "A", "model A")
    /\ EntryOf(section.guidelines[2], op, mc_models.b, "B", "model B")

C4_ProbaChecksCaptureFailures ==
    mc_last.op \in ProbaChecks =>
        /\ mc_exc = "none"
        /\ StoredOne(mc_last.pre, mc_state, KeyOf(mc_last.op))
        /\ TwoEntries(Lookup(mc_state, KeyOf(mc_last.op)), mc_last.op)

\* precision_and_recall with model A succeeding and model B lacking predict_proba.
C4_Witness ==
    /\ mc_last.op = "precision_and_recall"
    /\ mc_models.a.predict_proba = "ok"
    /\ mc_models.b.predict_proba = "missing"
    /\ HasKey(mc_state, "percision_recall")
    /\ Lookup(mc_state, "percision_recall").guidelines =
          <<Plot("precision_recall"),
            _get_calculate_failed_error("percision_recall", "model B", "AttributeError")>>

(***************************************************************************)
(* C5, as claimed.  During compare_models no failing prediction call,      *)
(* predict or predict_proba, of a model comes out of any of the five       *)
(* checks: compare_models does not end in an exception while a model's     *)
(* prediction fails, and it returns the report with the sections           *)
(* percision_recall, auc, computation, calibration,                        *)
(* combined_confusion_matrix.                                              *)
(***************************************************************************)
FiveKeys ==
    <<"percision_recall", "auc", "computation", "calibration",
      "combined_confusion_matrix">>

PredictFails == predict_exc(mc_models.a) # "none" \/ predict_exc(mc_models.b) # "none"

ProbaFails == proba_exc(mc_models.a) # "none" \/ proba_exc(mc_models.b) # "none"

C5_AllFiveChecksIsolated ==
    mc_driver = "compare_models" =>
        /\ (PredictFails \/ ProbaFails) => mc_pc # "raised"
        /\ mc_pc = "finalized" =>
              /\ Keys(mc_state) = FiveKeys
              /\ mc_report = [title |-> "Compare models", sections |-> mc_state]

(***************************************************************************)
(* C5, amended.  During compare_models a failure of predict_proba, or of   *)
(* the computation that follows it, never comes out of                     *)
(* precision_and_recall, auc or calibration: each of them still stores     *)
(* both models' entries.  compare_models ends in an exception only in      *)
(* computation or add_combined_cm, which call predict outside any try, and *)
(* only when a model's predict fails or the two confusion matrices do not  *)
(* add up; when it returns, the report holds the five sections in order.   *)
(***************************************************************************)
C5_ProbaFailuresIsolated ==
    mc_driver = "compare_models" =>
        /\ mc_pc = "raised" =>
              /\ mc_last.op \in {"computation", "add_combined_cm"}
              /\ mc_last.op = "computation" => PredictFails
              /\ mc_state = mc_last.pre
              /\ mc_report = NoReport
        /\ \A i \in 1..Len(mc_state) : mc_state[i].key = FiveKeys[i]
        /\ \A op \in ProbaChecks :
              HasKey(mc_state, KeyOf(op)) => TwoEntries(Lookup(mc_state, KeyOf(op)), op)
        /\ mc_pc = "finalized" =>
              /\ Keys(mc_state) = FiveKeys
              /\ mc_report = [title |-> "Compare models", sections |-> mc_state]

\* compare_models returned its report although model A has no predict_proba.
C5_Witness ==
    /\ mc_driver = "compare_models"
    /\ mc_pc = "finalized"
    /\ mc_models.a.predict_proba = "missing"
    /\ Keys(mc_report.sections) = FiveKeys

(***************************************************************************)
(* C6.  evaluate_balance stores exactly one section keyed "balance",       *)
(* included in the report: ok with the affirming text alone when y_true is *)
(* classified balanced; not ok with the problem text, the                  *)
(* target-distribution plot and the remediation link, in this order, when  *)
(* it is classified imbalanced.                                            *)
(***************************************************************************)
C6_BalanceSection ==
    me_called("evaluate_balance") =>
        /\ me_exc = "none"
        /\ StoredOne(me_last.pre, me_state, "balance")
        /\ LET section == Lookup(me_state, "balance")
           IN  /\ section.include_in_report
               /\ section.title = "balance"
               /\ IF me_last.args = <<1>>
                  THEN /\ section.is_ok
                       /\ section.guidelines = <<Text("your model is balanced")>>
                  ELSE /\ ~section.is_ok
                       /\ section.guidelines =
                            <<Text("Your test set is highly imbalanced"),
                              Plot("target_analysis"),
                              RemediationLink>>

\* evaluate_balance ran on a y_true classified imbalanced.
C6_Witness ==
    /\ me_called("evaluate_balance")
    /\ me_last.args = <<0>>
    /\ HasKey(me_state, "balance")
    /\ Len(Lookup(me_state, "balance").guidelines) = 3

(***************************************************************************)
(* C7.  evaluate_accuracy on a ModelEvaluator that holds no balance        *)
(* section ends in the KeyError of the "balance" lookup and leaves the     *)
(* evaluator's sections as they were: no accuracy section is stored.       *)
(***************************************************************************)
C7_AccuracyBeforeBalance ==
    (me_called("evaluate_accuracy") /\ ~HasKey(me_last.pre, "balance")) =>
        /\ me_exc = "KeyError"
        /\ me_state = me_last.pre
        /\ ~HasKey(me_state, "accuracy")

\* evaluate_accuracy was the first call on a new ModelEvaluator.
C7_Witness ==
    /\ me_called("evaluate_accuracy")
    /\ me_last.pre = <<>>
    /\ me_exc = "KeyError"

(***************************************************************************)
(* C8, as claimed.  generate_general_stats stores a section keyed          *)
(* "general_stats" that is ok and included in the report and holds the     *)
(* confusion-matrix plot followed by the ROC plot.                         *)
(***************************************************************************)
GeneralStatsStored ==
    /\ me_exc = "none"
    /\ StoredOne(me_last.pre, me_state, "general_stats")
    /\ Lookup(me_state, "general_stats").include_in_report
    /\ Lookup(me_state, "general_stats").guidelines =
          <<Plot("confusion_matrix"), Plot("roc")>>

C8_GeneralStatsAlwaysOk ==
    me_called("generate_general_stats") =>
        /\ GeneralStatsStored
        /\ Lookup(me_state, "general_stats").is_ok

(***************************************************************************)
(* C8, amended.  generate_general_stats stores a section keyed             *)
(* "general_stats" that is included in the report and holds the            *)
(* confusion-matrix plot followed by the ROC plot; it never sets is_ok,    *)
(* which keeps the value false it has from construction.                   *)
(***************************************************************************)
C8_GeneralStatsNeverMarkedOk ==
    me_called("generate_general_stats") =>
        /\ GeneralStatsStored
        /\ ~Lookup(me_state, "general_stats").is_ok

\* generate_general_stats ran and stored its section.
C8_Witness ==
    /\ me_called("generate_general_stats")
    /\ HasKey(me_state, "general_stats")
    /\ Len(Lookup(me_state, "general_stats").guidelines) = 2

(***************************************************************************)
(* C9, as claimed.  The mapping get_dict returned is a snapshot: whatever  *)
(* is called on the section later, it holds what it held when it was       *)
(* returned.                                                               *)
(***************************************************************************)
C9_GetDictIsSnapshot ==
    rs_held # 0 => rs_heap[rs_held] = rs_seen

(***************************************************************************)
(* C9, amended.  The mapping get_dict returned is the section's own dict:  *)
(* at every later moment it holds the section's current guidelines,        *)
(* include_in_report and is_ok, so every later append_guideline, set_is_ok *)
(* and set_include_in_report shows through it; its title alone stays what  *)
(* it was.                                                                 *)
(***************************************************************************)
C9_GetDictIsLive ==
    rs_held # 0 =>
        /\ rs_heap[rs_held] = rs_self.report_section
        /\ rs_heap[rs_held].title = rs_seen.title

\* A call made after get_dict changed what the mapping it returned holds.
C9_Witness ==
    /\ rs_held # 0
    /\ rs_heap[rs_held] # rs_seen
    /\ rs_heap[rs_held].title = rs_seen.title

C11_AnyLowCurveFlagsSection ==
    (me_called("evaluate_auc") /\ Len(me_last.args) >= 2) =>
        /\ me_exc = "none"
        /\ HasKey(me_state, "auc")
        /\ LET aucs == me_last.args
               low == \E i \in 1..Len(aucs) : 0 <= aucs[i] /\ aucs[i] <= 60
               section == Lookup(me_state, "auc")
           IN  /\ low => (~section.is_ok /\ section.include_in_report)
               /\ (section.is_ok /\ ~section.include_in_report) => ~low

(***************************************************************************)
(* C12.  A call roc(y_true, y_score, ax) that returns has drawn on one     *)
(* Axes only, after what that Axes already held, and returns that Axes:    *)
(* the passed ax when one is given, the current Axes otherwise.  When      *)
(* y_score has more than two columns it has drawn n_classes + 1 curves:    *)
(* the micro-average curve first, then one curve per class in class-index  *)
(* order, each computed from the binarized y_true.  When y_score has one   *)
(* or two columns it has drawn exactly one curve, from y_true and y_score  *)
(* as passed.                                                              *)
(***************************************************************************)
IsCurve(line) == line.label # ""

ClassCurve(i) ==
    [data |-> <<Slice("y_true_bin", ToString(i)), Slice("y_score", ToString(i))>>,
     style |-> "", label |-> "ROC curve (area = auc)"]

C12_RocDispatch ==
    (plt_last.n_classes > 0 /\ plt_last.exc = "none") =>
        LET n_classes == plt_last.n_classes
            ax == IF plt_last.ax = NoAx THEN plt_gca ELSE plt_last.ax
            before == plt_last.pre[ax].lines
            after == plt_axes[ax].lines
            drawn == SubSeq(after, Len(before) + 1, Len(after))
            curves == SelectSeq(drawn, IsCurve)
        IN  /\ plt_last.ret = ax
            /\ plt_last.ax # NoAx => plt_last.ret = plt_last.ax
            /\ \A a \in 1..NAxes : a # ax => plt_axes[a] = plt_last.pre[a]
            /\ Len(after) >= Len(before)
            /\ SubSeq(after, 1, Len(before)) = before
            /\ IF n_classes > 2
               THEN /\ Len(curves) = n_classes + 1
                    /\ curves[1] =
                         [data |-> <<Slice("y_true_bin", "ravel"), Slice("y_score", "ravel")>>,
                          style |-> "", label |-> "micro-average ROC curve (area = auc)"]
                    /\ \A i \in 0..(n_classes - 1) : curves[i + 2] = ClassCurve(i)
               ELSE /\ Len(curves) = 1
                    /\ curves[1] =
                         [data |-> <<Slice("y_true", "all"), Slice("y_score", "all")>>,
                          style |-> "", label |-> "ROC curve (area = auc)"]

\* A three-column y_score was drawn on a passed Axes that already held a curve
\* and is not the current Axes.
C12_Witness ==
    /\ plt_last.n_classes = 3
    /\ plt_last.ax = 2
    /\ plt_last.exc = "none"
    /\ plt_last.ret = 2
    /\ plt_last.pre[2].lines # <<>>
    /\ Len(SelectSeq(plt_axes[2].lines, IsCurve)) >= 5

====
